---- MODULE Spec2Model ----
(***************************************************************************)
(* Model of the server-side SSE broker: the client registry               *)
(* (SSEClientManager), the event dispatcher (SSEEventDispatcher) and the   *)
(* service that composes them and owns the two background loops            *)
(* (SSEService).                                                           *)
(*                                                                         *)
(* Time is kept relative: a timestamp is stored as its age (now - stamp)   *)
(* and a timer as the delay left until it fires.  One time unit stands for *)
(* 30000 ms, the default heartbeat interval.  JavaScript runs every        *)
(* handler to completion, so each handler is one atomic action.            *)
(***************************************************************************)
EXTENDS Integers, Sequences, FiniteSets, TLC

VARIABLES
    clients,            \* SSEClientManager.clients : id -> handle
    userClientMap,      \* SSEClientManager.userClientMap : userId -> set of ids
    sessionClientMap,   \* SSEClientManager.sessionClientMap : sessionId -> set of ids
    metrics,            \* SSEClientManager.metrics
    config,             \* the SSEServiceConfig given to the constructor
    heartbeatInterval,  \* SSEService.heartbeatInterval : timer handle or Null
    cleanupInterval,    \* SSEService.cleanupInterval : timer handle or Null
    timers,             \* the runtime's live interval timers : handle -> [kind, due]
    pending,            \* the sendEvent calls that wait at their await, oldest first
    sinkDepth,          \* history: how many events of each sink are kept
    hook,               \* one useSSE instance in a browser (refs, sources, timeouts)
    lastOp              \* history: the operation that ran last and what it returned

vars == <<clients, userClientMap, sessionClientMap, metrics, config,
          heartbeatInterval, cleanupInterval, timers, pending, sinkDepth, hook,
          lastOp>>

registry == <<clients, userClientMap, sessionClientMap>>
service == <<heartbeatInterval, cleanupInterval, timers>>
setup == <<config, sinkDepth>>      \* fixed when the instance is constructed
aside == <<pending, hook>>          \* untouched by a handler that runs in one turn

----------------------------------------------------------------------------
(* Bounds of the model *)

MaxClients == 2             \* config.maxClients of the modelled instances
MaxAge == 5                 \* ages saturate here, above every modelled timeout
MaxTimers == 4              \* live interval timers (one leaked generation)
MaxTotalConnections == 3    \* cap of the totalConnections counter
MaxEventsDispatched == 2    \* cap of the eventsDispatched counter
MaxErrors == 1              \* cap of the errors counter
MaxSinkLog == 1             \* events of a sink that the history keeps

\* generated ids never run out: one id more than the registry can hold
ClientIdPool == <<"c1", "c2", "c3", "c4">>
ClientIds == {ClientIdPool[i] : i \in 1 .. MaxClients + 1}
UserIds == {"u1", "u2"}
SessionIds == {"s1"}

Undefined == "undefined"    \* an optional string field that is not set
Unset == -1                 \* lastPing not set
Null == 0                   \* no timer handle
\* a clientIds value that is truthy but not iterable (a number, an object);
\* written as a one-element tuple so that it compares with the id lists
NotIterable == <<"notIterable">>
TimerIds == 1 .. MaxTimers
MaxClock == 2               \* readings of Date.now()
MaxCalls == 3               \* consecutive calls of the event factories

\* heartbeatInterval 30000, clientTimeoutMs 120000, in units of 30000 ms
DefaultConfig ==
    [heartbeatInterval |-> 1, clientTimeoutMs |-> 4, maxClients |-> MaxClients]

\* an instance whose heartbeat is slower than 1.5 x its client timeout
SlowHeartbeatConfig ==
    [heartbeatInterval |-> 4, clientTimeoutMs |-> 2, maxClients |-> MaxClients]

Configs == {DefaultConfig, SlowHeartbeatConfig}

----------------------------------------------------------------------------
(* Helpers *)

Truthy(x) == x # Undefined

Min(a, b) == IF a < b THEN a ELSE b

Older(age) == Min(age + 1, MaxAge)

Range(seq) == {seq[i] : i \in DOMAIN seq}

\* the ids of a set as an array, in one fixed iteration order
RECURSIVE SetToSeq(_)
SetToSeq(S) ==
    IF S = {} THEN << >>
    ELSE LET x == CHOOSE y \in S : TRUE
         IN <<x>> \o SetToSeq(S \ {x})

MapRemoveKey(map, key) == [k \in DOMAIN map \ {key} |-> map[k]]

----------------------------------------------------------------------------
(* SSEClientManager: the registry *)

\* mutant: the set of the key is replaced instead of extended
IndexAddOverwrites(map, key, id) ==
    IF ~Truthy(key) THEN map
    ELSE [k \in DOMAIN map \cup {key} |-> IF k = key THEN {id} ELSE map[k]]

IndexAdd(map, key, id) ==
    IF ~Truthy(key) THEN map
    ELSE IF key \in DOMAIN map THEN [map EXCEPT ![key] = @ \cup {id}]
    ELSE map @@ (key :> {id})

\* mutant: the emptied set is left under its key
IndexRemoveKeepsKey(map, key, id) ==
    IF ~Truthy(key) \/ key \notin DOMAIN map THEN map
    ELSE [map EXCEPT ![key] = @ \ {id}]

IndexRemove(map, key, id) ==
    IF ~Truthy(key) \/ key \notin DOMAIN map THEN map
    ELSE IF map[key] \ {id} = {} THEN MapRemoveKey(map, key)
    ELSE [map EXCEPT ![key] = @ \ {id}]

\* mutant: addClient admits without looking at the size
CapacityUnchecked(size, cfg) == FALSE

\* mutant: the capacity test is off by one
CapacityExceeded(size, cfg) == size > cfg.maxClients

\* the capacity test of addClient
CapacityReached(size, cfg) == size >= cfg.maxClients

\* addClient(client): the registry after the call, "thrown" when it raised
addClient(client) ==
    IF CapacityReached(Cardinality(DOMAIN clients), config)
    THEN [thrown |-> TRUE, clients |-> clients, userClientMap |-> userClientMap,
          sessionClientMap |-> sessionClientMap, metrics |-> metrics]
    ELSE [thrown |-> FALSE,
          clients |-> [id \in DOMAIN clients \cup {client.id} |->
                          IF id = client.id THEN client ELSE clients[id]],
          userClientMap |-> IndexAdd(userClientMap, client.userId, client.id),
          sessionClientMap |-> IndexAdd(sessionClientMap, client.sessionId, client.id),
          metrics |-> [metrics EXCEPT !.totalConnections = @ + 1]]

\* mutant: the handle stays in the primary map
deleteClientSkipped(cs, clientId) == cs

\* this.clients.delete(clientId)
deleteClient(cs, clientId) == MapRemoveKey(cs, clientId)

\* controller.close() throws on a stream that is closed or errored already
closeThrows(client) == client.controller # "readable"

\* mutant: the error of close() reaches the caller of removeClient
closeUncaught(client) == closeThrows(client)

\* what the try / catch around controller.close() lets through: nothing
closePropagates(client) == FALSE

\* mutant: an id that is not registered is reported as removed
removeClientAlwaysTrue(r, clientId) ==
    IF clientId \notin DOMAIN r.clients
    THEN [r EXCEPT !.removed = TRUE]
    ELSE LET client == r.clients[clientId]
         IN [removed |-> TRUE,
             clients |-> deleteClient(r.clients, clientId),
             userClientMap |-> IndexRemove(r.userClientMap, client.userId, clientId),
             sessionClientMap |->
                 IndexRemove(r.sessionClientMap, client.sessionId, clientId),
             closed |-> Append(r.closed, clientId),
             raised |-> r.raised \/ closePropagates(client)]

\* removeClient(clientId) on a registry value r = [clients, userClientMap,
\* sessionClientMap] that also collects, over the calls made on it, closed: the
\* ids whose controller.close() was attempted, and raised: a call threw;
\* removed is what the call returns
removeClient(r, clientId) ==
    IF clientId \notin DOMAIN r.clients
    THEN [r EXCEPT !.removed = FALSE]
    ELSE LET client == r.clients[clientId]
         IN [removed |-> TRUE,
             clients |-> deleteClient(r.clients, clientId),
             userClientMap |-> IndexRemove(r.userClientMap, client.userId, clientId),
             sessionClientMap |->
                 IndexRemove(r.sessionClientMap, client.sessionId, clientId),
             closed |-> Append(r.closed, clientId),
             raised |-> r.raised \/ closePropagates(client)]

RECURSIVE removeEach(_, _)
removeEach(r, ids) ==
    IF ids = << >> THEN r
    ELSE removeEach(removeClient(r, Head(ids)), Tail(ids))

Registry ==
    [removed |-> FALSE, clients |-> clients, userClientMap |-> userClientMap,
     sessionClientMap |-> sessionClientMap, closed |-> << >>, raised |-> FALSE]

getAllClients == SetToSeq(DOMAIN clients)

\* the ids resolved through one index, each re-checked against the primary map
IndexLookup(map, key) ==
    IF Truthy(key) /\ key \in DOMAIN map
    THEN SelectSeq(SetToSeq(map[key]), LAMBDA id : id \in DOMAIN clients)
    ELSE << >>

\* a ClientFilter is a record holding the fields that are set; a field that
\* is absent (or set to undefined) reads as Undefined
Field(filter, name) == IF name \in DOMAIN filter THEN filter[name] ELSE Undefined

\* mutant: the loop over the listed ids ends at the first id that does not
\* resolve
getClientsByFilterStopsAtStale(filter) ==
    IF "clientIds" \in DOMAIN filter
    THEN LET ids == filter.clientIds
             stale == {i \in DOMAIN ids : ids[i] \notin DOMAIN clients}
         IN IF stale = {} THEN ids
            ELSE SubSeq(ids, 1, (CHOOSE i \in stale : \A j \in stale : i <= j) - 1)
    ELSE IndexLookup(userClientMap, Field(filter, "userId"))
         \o IndexLookup(sessionClientMap, Field(filter, "sessionId"))

getClientsByFilter(filter) ==
    IF "clientIds" \in DOMAIN filter
    THEN SelectSeq(filter.clientIds, LAMBDA id : id \in DOMAIN clients)
    ELSE IndexLookup(userClientMap, Field(filter, "userId"))
         \o IndexLookup(sessionClientMap, Field(filter, "sessionId"))

incrementEventsDispatched(m) == [m EXCEPT !.eventsDispatched = @ + 1]

\* mutant: the error is rethrown without being counted
incrementErrorsSkipped(m) == m

incrementErrors(m) == [m EXCEPT !.errors = @ + 1]

\* the for-of over filter.clientIds throws a TypeError when the value is
\* truthy but not iterable
getClientsByFilterThrows(filter) ==
    "clientIds" \in DOMAIN filter /\ filter.clientIds = NotIterable

\* now - lastPing when lastPing is set, else now - connectedAt
timeSinceLastPing(client) ==
    IF client.lastPing # Unset THEN client.lastPing ELSE client.connectedAt

\* mutant: a handle idle for exactly the timeout is stale too
IsStaleAtTimeout(client, cfg) == timeSinceLastPing(client) >= cfg.clientTimeoutMs

IsStale(client, cfg) == timeSinceLastPing(client) > cfg.clientTimeoutMs

staleClients ==
    SelectSeq(getAllClients, LAMBDA id : IsStale(clients[id], config))

cleanup == removeEach(Registry, getAllClients)

removeStaleClients == removeEach(Registry, staleClients)

----------------------------------------------------------------------------
(* SSEEventDispatcher *)

\* controller.enqueue succeeds on a readable stream and throws on a closed or
\* errored one; sendEventToClient catches the throw and returns false
sendEventToClient(client) == client.controller = "readable"

\* what enqueue leaves in the sink of a readable stream: the chunk joins the
\* queue, of which the history keeps the types of the first sinkDepth events
\* mutant: a chunk goes to the head of the queue
EnqueueFirst(client, type) ==
    IF Len(client.sink) < sinkDepth
    THEN [client EXCEPT !.sink = <<type>> \o @]
    ELSE client

Enqueue(client, type) ==
    IF Len(client.sink) < sinkDepth
    THEN [client EXCEPT !.sink = Append(@, type)]
    ELSE client

\* the handles after one event was written to each of these ids in turn
RECURSIVE enqueueEach(_, _, _)
enqueueEach(cs, ids, type) ==
    IF ids = << >> THEN cs
    ELSE enqueueEach([cs EXCEPT ![Head(ids)] = Enqueue(@, type)], Tail(ids), type)

\* the types of the events the factories build; "message" stands for the type
\* of an event a caller passes to sendEvent
createHeartbeatEvent == "heartbeat"
createConnectionEvent == "connection"
MessageEvent == "message"

\* Promise.allSettled over the per-client sends, one result per position
settled(targets) ==
    [i \in DOMAIN targets |->
        [status |-> "fulfilled", value |-> sendEventToClient(clients[targets[i]])]]

\* mutant: every settled send is counted, whatever it returned
CountsAnySettled(result) == result.status = "fulfilled"

CountsAsSuccess(result) == result.status = "fulfilled" /\ result.value = TRUE

sendEventToClients(targets) ==
    LET results == settled(targets)
    IN [successCount |->
            Cardinality({i \in DOMAIN results : CountsAsSuccess(results[i])}),
        written |->
            SelectSeq(targets, LAMBDA id : sendEventToClient(clients[id]))]

(* The wire format.  A JavaScript string is kept as the sequence of its     *)
(* pieces, a line break being the piece Newline and no other piece holding  *)
(* one; Concat gives the string itself.                                     *)

Newline == "\n"

RECURSIVE Concat(_)
Concat(str) == IF str = << >> THEN "" ELSE Head(str) \o Concat(Tail(str))

\* a string is truthy unless it is absent or empty
TruthyString(x) == x # Undefined /\ x # ""

\* a number is truthy unless it is absent or zero
TruthyNumber(x) == x # Unset /\ x # 0

\* str.split("\n")
RECURSIVE split(_)
split(str) ==
    IF str = << >> THEN << << >> >>
    ELSE LET rest == split(Tail(str))
         IN IF Head(str) = Newline
            THEN << << >> >> \o rest
            ELSE << <<Head(str)>> \o Head(rest) >> \o Tail(rest)

\* the members of an object with string values, as JSON.stringify writes them
RECURSIVE Members(_)
Members(pairs) ==
    IF pairs = << >> THEN ""
    ELSE "\"" \o Head(pairs)[1] \o "\":\"" \o Head(pairs)[2] \o "\""
         \o (IF Len(pairs) > 1 THEN "," ELSE "") \o Members(Tail(pairs))

\* JSON.stringify(undefined) is undefined, not a string
Serializes(data) == data.kind # "undefined"

\* JSON.stringify of null and of a flat object: one piece, no line break
JSONstringify(data) ==
    IF data.kind = "null" THEN <<"null">> ELSE <<"{" \o Members(data.pairs) \o "}">>

\* the lines put together again, line breaks included
RECURSIVE LinesJoined(_)
LinesJoined(lines) ==
    IF lines = << >> THEN << >>
    ELSE Head(lines) \o (IF Len(lines) > 1 THEN <<Newline>> ELSE << >>)
         \o LinesJoined(Tail(lines))

\* mutant: the payload goes out on one data line
DataOneLine(lines) == <<"data: ">> \o LinesJoined(lines) \o <<Newline>>

\* for (const line of dataLines) formatted += `data: ${line}\n`
RECURSIVE DataLines(_)
DataLines(lines) ==
    IF lines = << >> THEN << >>
    ELSE <<"data: ">> \o Head(lines) \o <<Newline>> \o DataLines(Tail(lines))

\* formatSSEMessage(event): thrown when message.data is not a string, else
\* the formatted text
formatSSEMessage(event) ==
    IF event.data.kind # "string" /\ ~Serializes(event.data)
    THEN [thrown |-> TRUE, formatted |-> << >>]
    ELSE LET data == IF event.data.kind = "string"
                     THEN event.data.pieces
                     ELSE JSONstringify(event.data)
             eventLine == IF TruthyString(event.type)
                          THEN <<"event: ", event.type, Newline>> ELSE << >>
             idLine == IF TruthyString(event.id)
                       THEN <<"id: ", event.id, Newline>> ELSE << >>
             retryLine == IF TruthyNumber(event.retry)
                          THEN <<"retry: ", ToString(event.retry), Newline>>
                          ELSE << >>
         IN [thrown |-> FALSE,
             formatted |-> eventLine \o idLine \o retryLine
                              \o DataLines(split(data)) \o <<Newline>>]

\* (the fields of the payloads and of the events are written in the order in
\* which TLC keeps the fields of a record, so that no worker ever reorders a
\* record that another one is reading)
StringData(pieces) == [pairs |-> << >>, kind |-> "string", pieces |-> pieces]
ObjectData(pairs) == [pairs |-> pairs, kind |-> "object", pieces |-> << >>]
NullData == [pairs |-> << >>, kind |-> "null", pieces |-> << >>]
UndefinedData == [pairs |-> << >>, kind |-> "undefined", pieces |-> << >>]

\* new Date(now).toISOString(), up to the notation of the reading
toISOString(now) == "T" \o ToString(now)

\* `${type}-${Date.now()}`
EventId(type, now) == type \o "-" \o ToString(now)

\* the events the factories build at the clock reading now
HeartbeatEvent(now) ==
    [id |-> EventId(createHeartbeatEvent, now), type |-> createHeartbeatEvent,
     data |-> ObjectData(<< <<"timestamp", toISOString(now)>> >>),
     retry |-> Unset]

ErrorEvent(now, message, code) ==
    [id |-> EventId("error", now), type |-> "error",
     data |-> ObjectData(<< <<"message", message>>,
                            <<"code", IF code = Undefined THEN "UNKNOWN_ERROR" ELSE code>>,
                            <<"timestamp", toISOString(now)>> >>),
     retry |-> Unset]

ConnectionEvent(now) ==
    [id |-> EventId(createConnectionEvent, now), type |-> createConnectionEvent,
     data |-> ObjectData(<< <<"status", "connected">>,
                            <<"timestamp", toISOString(now)>> >>),
     retry |-> Unset]

----------------------------------------------------------------------------
(* History of the last operation *)

\* op: the operation; arg: its arguments, by name; ok: it returned (FALSE: it raised);
\* result: the count or the boolean (1/0) it returned; targets: the ids it
\* resolved; written: the ids whose sink took a write, in the order of the
\* writes; removed: the handles it deregistered; repeat: a removeClient that
\* follows a removeClient of the same id that returned true; stream: the
\* state in which createClient left the transport-facing stream it built;
\* closed: the ids whose controller.close() it attempted, in that order;
\* text: the lines formatSSEMessage returned
Op(name, arg, ok, result, targets, written, removed) ==
    [op |-> name, arg |-> arg, ok |-> ok, result |-> result,
     targets |-> targets, written |-> written, removed |-> removed,
     repeat |-> FALSE, stream |-> Undefined, closed |-> << >>, text |-> << >>,
     now |-> 0]

\* the record of an operation that made the removeClient calls collected in r
Removal(op, r) == [op EXCEPT !.closed = r.closed, !.ok = ~r.raised]

\* the handles a removal of these ids takes out of the registry
Handles(ids) == {clients[id] : id \in Range(ids) \cap DOMAIN clients}

\* the inputs of the send operations
ClientIdLists ==
    {<< >>} \cup {<<a>> : a \in ClientIds} \cup {<<a, b>> : a, b \in ClientIds}

UserFilters == {[userId |-> u] : u \in UserIds}
MixedFilters == {[userId |-> u, sessionId |-> s] : u \in UserIds, s \in SessionIds}
EmptyFilter == [x \in {} |-> Undefined]
NoArg == EmptyFilter

----------------------------------------------------------------------------
(* SSEService *)

HeartbeatPeriod(cfg) == cfg.heartbeatInterval

\* mutant: the sweep runs once per timeout
CleanupPeriodIsTimeout(cfg) == cfg.clientTimeoutMs

\* setInterval(..., clientTimeoutMs / 2)
CleanupPeriod(cfg) == cfg.clientTimeoutMs \div 2

FreeTimerIds(ts) == TimerIds \ DOMAIN ts

\* setInterval: a new live timer, first due one period from now
SetInterval(ts, id, kind, period) == ts @@ (id :> [kind |-> kind, due |-> period])

\* clearInterval: the timer is gone; clearing a handle twice is harmless
ClearInterval(ts, id) == [t \in DOMAIN ts \ {id} |-> ts[t]]

\* startHeartbeat(); startCleanup(): both handles are overwritten
StartLoops(ts) ==
    LET hb == CHOOSE t \in FreeTimerIds(ts) : TRUE
        cl == CHOOSE t \in FreeTimerIds(ts) \ {hb} : TRUE
    IN [heartbeatInterval |-> hb, cleanupInterval |-> cl,
        timers |-> SetInterval(SetInterval(ts, hb, "heartbeat", HeartbeatPeriod(config)),
                               cl, "cleanup", CleanupPeriod(config))]

NewClient(id, userId, sessionId, controller) ==
    [id |-> id, userId |-> userId, sessionId |-> sessionId,
     controller |-> controller, connectedAt |-> 0, lastPing |-> Unset,
     sink |-> << >>]

\* generateClientId: a time-stamped random id, hence one that is not
\* registered; ids are opaque, so which of the free ids it is does not matter
FreshIds == ClientIds \ DOMAIN clients

generateClientId == CHOOSE id \in ClientIds : FreshIds # {} => id \in FreshIds

\* mutant: a start() that failed leaves the stream readable
StreamStaysReadable(thrown) == "readable"

\* the stream when start() is over: the catch branch errors it
StreamAfterStart(thrown) == IF thrown THEN "errored" ELSE "readable"

\* mutant: the handle is registered without a connection event
NotAcknowledged(client) == client

\* the new handle after the connection event was written to it
Acknowledged(client) ==
    IF sendEventToClient(client) THEN Enqueue(client, createConnectionEvent)
    ELSE client

\* createClient(userId?, sessionId?): start() registers the handle and writes
\* the connection event; a capacity error errors the stream and is rethrown
CreateClient(userId, sessionId) ==
    LET id == generateClientId
        added == addClient(NewClient(id, userId, sessionId, "readable"))
    IN /\ added.thrown \/ metrics.totalConnections < MaxTotalConnections
       /\ clients' = IF added.thrown THEN added.clients
                     ELSE [added.clients EXCEPT ![id] = Acknowledged(@)]
       /\ userClientMap' = added.userClientMap
       /\ sessionClientMap' = added.sessionClientMap
       /\ metrics' = added.metrics
       /\ lastOp' =
             [(IF added.thrown
               THEN Op("createClient", [clientId |-> id], FALSE, 0, << >>, << >>, {})
               ELSE Op("createClient", [clientId |-> id], TRUE, 1, <<id>>, <<id>>, {}))
                 EXCEPT !.stream = StreamAfterStart(added.thrown)]
       /\ UNCHANGED <<setup, aside, service>>

\* removeClient(clientId): explicit disconnect
RemoveClient(clientId) ==
    LET r == removeClient(Registry, clientId)
    IN /\ clients' = r.clients
       /\ userClientMap' = r.userClientMap
       /\ sessionClientMap' = r.sessionClientMap
       /\ lastOp' = [Removal(Op("removeClient", [clientId |-> clientId], TRUE,
                                IF r.removed THEN 1 ELSE 0, << >>, << >>,
                                Handles(<<clientId>>)), r)
                        EXCEPT !.repeat = /\ lastOp.op = "removeClient"
                                          /\ lastOp.arg.clientId = clientId
                                          /\ lastOp.result = 1]
       /\ UNCHANGED <<metrics, setup, aside, service>>

\* the stream of this id can still be cancelled: it is registered and
\* readable, or the last operation removed it while it was readable and its
\* queue still holds the chunks written to it, so that close() left it
\* readable until they are read
Cancellable(clientId) ==
    \/ /\ clientId \in DOMAIN clients
       /\ clients[clientId].controller = "readable"
    \/ /\ clientId \notin DOMAIN clients
       /\ lastOp.op # "cancel"
       /\ \E h \in lastOp.removed :
             h.id = clientId /\ h.controller = "readable" /\ h.sink # << >>

\* the registry as the cancel callback finds it: the stream of the handle, if
\* it is still registered, has been closed by the cancellation
Cancelled(clientId) ==
    IF clientId \in DOMAIN clients
    THEN [Registry EXCEPT !.clients[clientId].controller = "closed"]
    ELSE Registry

\* mutant: the stream has no cancel callback
cancelIgnored(r, clientId) == [r EXCEPT !.removed = FALSE]

\* cancel: () => { this.removeClient(clientId) }
cancel(r, clientId) == removeClient(r, clientId)

\* the transport cancels a stream: the stream is closed, then the cancel
\* callback calls removeClient, whose controller.close() throws and is
\* swallowed.  A closed or errored stream never runs the callback.
TransportCancel(clientId) ==
    /\ Cancellable(clientId)
    /\ LET r == cancel(Cancelled(clientId), clientId)
       IN /\ clients' = r.clients
          /\ userClientMap' = r.userClientMap
          /\ sessionClientMap' = r.sessionClientMap
          /\ lastOp' = [Removal(Op("cancel", [clientId |-> clientId], TRUE,
                                   IF r.removed THEN 1 ELSE 0, << >>, << >>,
                                   Handles(<<clientId>>)), r)
                           EXCEPT !.repeat = clientId \notin DOMAIN clients,
                                  !.stream = "closed"]
    /\ UNCHANGED <<metrics, setup, aside, service>>

\* the holder of a handle closes or errors its controller (the handle that
\* createClient returns exposes it): from then on every write to it throws
SinkBreak(clientId, state) ==
    /\ clientId \in DOMAIN clients
    /\ clients[clientId].controller = "readable"
    /\ clients' = [clients EXCEPT ![clientId].controller = state]
    /\ lastOp' = Op("sinkBreak", [clientId |-> clientId], TRUE, 0, << >>, << >>, {})
    /\ UNCHANGED <<userClientMap, sessionClientMap, metrics, setup, aside, service>>

\* mutant: a send that found no target counts as a dispatched event
sendEventCountsNoMatch(hasFilter, filter) ==
    IF hasFilter /\ getClientsByFilterThrows(filter)
    THEN [thrown |-> TRUE, result |-> 0, targets |-> << >>, written |-> << >>,
          clients |-> clients, metrics |-> incrementErrors(metrics)]
    ELSE LET targets == IF hasFilter THEN getClientsByFilter(filter) ELSE getAllClients
             sent == sendEventToClients(targets)
         IN [thrown |-> FALSE, result |-> sent.successCount, targets |-> targets,
             written |-> sent.written,
             clients |-> enqueueEach(clients, sent.written, MessageEvent),
             metrics |-> incrementEventsDispatched(metrics)]

\* sendEvent(event, filter?): what escapes the try block is counted as an error
\* and rethrown; a write that a sink rejects is caught in sendEventToClient
\* and does not escape
sendEvent(hasFilter, filter) ==
    IF hasFilter /\ getClientsByFilterThrows(filter)
    THEN [thrown |-> TRUE, result |-> 0, targets |-> << >>, written |-> << >>,
          clients |-> clients, metrics |-> incrementErrors(metrics)]
    ELSE LET targets == IF hasFilter THEN getClientsByFilter(filter) ELSE getAllClients
             sent == sendEventToClients(targets)
         IN IF Len(targets) = 0
            THEN [thrown |-> FALSE, result |-> 0, targets |-> targets,
                  written |-> << >>, clients |-> clients, metrics |-> metrics]
            ELSE [thrown |-> FALSE, result |-> sent.successCount,
                  targets |-> targets, written |-> sent.written,
                  clients |-> enqueueEach(clients, sent.written, MessageEvent),
                  metrics |-> incrementEventsDispatched(metrics)]

\* mutant: a handle whose write failed is dropped from the registry
SendEvictsFailed(name, arg, hasFilter, filter) ==
    LET out == sendEvent(hasFilter, filter)
        failed == SelectSeq(out.targets, LAMBDA id : ~sendEventToClient(clients[id]))
        r == removeEach([Registry EXCEPT !.clients = out.clients], failed)
    IN /\ out.metrics.eventsDispatched <= MaxEventsDispatched
       /\ out.metrics.errors <= MaxErrors
       /\ metrics' = out.metrics
       /\ clients' = r.clients
       /\ userClientMap' = r.userClientMap
       /\ sessionClientMap' = r.sessionClientMap
       /\ lastOp' = Op(name, arg, ~out.thrown, out.result, out.targets,
                       out.written, {})
       /\ UNCHANGED <<setup, aside, service>>

Send(name, arg, hasFilter, filter) ==
    LET out == sendEvent(hasFilter, filter)
    IN /\ out.metrics.eventsDispatched <= MaxEventsDispatched
       /\ out.metrics.errors <= MaxErrors
       /\ metrics' = out.metrics
       /\ clients' = out.clients
       /\ lastOp' = Op(name, arg, ~out.thrown, out.result, out.targets,
                       out.written, {})
       /\ UNCHANGED <<userClientMap, sessionClientMap, setup, aside, service>>

Broadcast == Send("broadcast", NoArg, FALSE, EmptyFilter)

SendToUser(userId) ==
    Send("sendToUser", [userId |-> userId], TRUE, [userId |-> userId])

SendToSession(sessionId) ==
    Send("sendToSession", [sessionId |-> sessionId], TRUE, [sessionId |-> sessionId])

SendToClients(clientIds) ==
    Send("sendToClients", [clientIds |-> clientIds], TRUE, [clientIds |-> clientIds])

SendEvent(filter) == Send("sendEvent", filter, TRUE, filter)

\* sseUtils.sendNotification(message, type, options): the filter copies the
\* three targeting options, set or not, and is always passed to sendEvent
NotificationOptions == UserFilters \cup {EmptyFilter}

NotificationFilter(options) ==
    [name \in {n \in {"userId", "sessionId", "clientIds"} : n \in DOMAIN options}
        |-> options[name]]

SendNotification(options) ==
    Send("sendNotification", options, TRUE, NotificationFilter(options))

\* mutant: an iteration in which something failed ends the loop
StoppedByFailure(ts, t, period, failed) ==
    IF failed THEN ClearInterval(ts, t) ELSE [ts EXCEPT ![t].due = period]

\* the timers when the callback of interval timer t has run: setInterval
\* fires it again one period later, whatever happened in the callback
AfterCallback(ts, t, period, failed) == [ts EXCEPT ![t].due = period]

\* mutant: only the handles that took the heartbeat are stamped
PingedIfWritten(cs) ==
    [id \in DOMAIN cs |->
        IF sendEventToClient(cs[id]) THEN [cs[id] EXCEPT !.lastPing = 0] ELSE cs[id]]

\* for (const client of clients) client.lastPing = new Date()
Pinged(cs) == [id \in DOMAIN cs |-> [cs[id] EXCEPT !.lastPing = 0]]

\* mutant: a heartbeat counts as a dispatched event
HeartbeatCounted(m) == incrementEventsDispatched(m)

\* the counters after a heartbeat tick: the callback calls no counter
HeartbeatMetrics(m) == m

\* one firing of the heartbeat timer; on an empty registry the callback returns
\* at once
HeartbeatTick(t) ==
    /\ t \in DOMAIN timers
    /\ timers[t].kind = "heartbeat"
    /\ timers[t].due = 0
    /\ LET targets == getAllClients
           sent == sendEventToClients(targets)
           stamped == Pinged(clients)
       IN /\ timers' = AfterCallback(timers, t, HeartbeatPeriod(config),
                                     Len(sent.written) < Len(targets))
          /\ clients' = enqueueEach(stamped, sent.written, createHeartbeatEvent)
          /\ metrics' = IF Len(targets) = 0 THEN metrics ELSE HeartbeatMetrics(metrics)
          /\ lastOp' = Op("heartbeat", NoArg, TRUE, Len(targets), targets,
                          IF Len(targets) = 0 THEN << >> ELSE sent.written, {})
    /\ UNCHANGED <<userClientMap, sessionClientMap, setup, aside,
                   heartbeatInterval, cleanupInterval>>

\* removeStaleClients() run now
Sweep ==
    LET r == removeStaleClients
    IN /\ clients' = r.clients
       /\ userClientMap' = r.userClientMap
       /\ sessionClientMap' = r.sessionClientMap
       /\ lastOp' = Removal(Op("sweep", NoArg, TRUE, Len(staleClients),
                               staleClients, << >>, Handles(staleClients)), r)

\* cleanup() run now
Cleanup ==
    LET r == cleanup
    IN /\ clients' = r.clients
       /\ userClientMap' = r.userClientMap
       /\ sessionClientMap' = r.sessionClientMap

\* one firing of the idle-sweep timer
SweepTick(t) ==
    /\ t \in DOMAIN timers
    /\ timers[t].kind = "cleanup"
    /\ timers[t].due = 0
    /\ timers' = AfterCallback(timers, t, CleanupPeriod(config),
                               \E id \in Range(staleClients) : closeThrows(clients[id]))
    /\ Sweep
    /\ UNCHANGED <<metrics, setup, aside, heartbeatInterval, cleanupInterval>>

\* shutdown(): clears the two timers whose handles the service holds, then
\* removes every client
Shutdown ==
    /\ timers' = ClearInterval(ClearInterval(timers, heartbeatInterval), cleanupInterval)
    /\ heartbeatInterval' = Null
    /\ cleanupInterval' = Null
    /\ Cleanup
    /\ lastOp' = Removal(Op("shutdown", NoArg, TRUE, 0, getAllClients, << >>,
                            Handles(getAllClients)), cleanup)
    /\ UNCHANGED <<metrics, setup, aside>>

\* reset(): removes every client and starts two new timers; the timers that
\* the handles named before are not cleared
Reset ==
    /\ Cardinality(FreeTimerIds(timers)) >= 2
    /\ Cleanup
    /\ LET started == StartLoops(timers)
       IN /\ timers' = started.timers
          /\ heartbeatInterval' = started.heartbeatInterval
          /\ cleanupInterval' = started.cleanupInterval
    /\ lastOp' = Removal(Op("reset", NoArg, TRUE, 0, getAllClients, << >>,
                            Handles(getAllClients)), cleanup)
    /\ UNCHANGED <<metrics, setup, aside>>

\* the ages of a handle's timestamps one time unit later.  connectedAt is read
\* only while lastPing is unset (timeSinceLastPing), so its age is followed
\* until then and left where it stands afterwards.
Aged(client) ==
    IF client.lastPing = Unset
    THEN [client EXCEPT !.connectedAt = Older(@)]
    ELSE [client EXCEPT !.lastPing = Older(@)]

\* one unit of time passes; a timer that is due fires before time moves on
Tick ==
    /\ \A t \in DOMAIN timers : timers[t].due > 0
    /\ timers' = [t \in DOMAIN timers |-> [timers[t] EXCEPT !.due = @ - 1]]
    /\ clients' = [id \in DOMAIN clients |-> Aged(clients[id])]
    /\ lastOp' = Op("tick", NoArg, TRUE, 0, << >>, << >>, {})
    /\ UNCHANGED <<userClientMap, sessionClientMap, metrics, setup, aside,
                   heartbeatInterval, cleanupInterval>>

----------------------------------------------------------------------------
(* useSSE: the React hook that holds the browser side of one connection *)

\* reconnectInterval = 5000 unless the caller passes another
DefaultReconnectInterval == 5000
ReconnectIntervals == {DefaultReconnectInterval, 1000}

\* the hook when it has just been mounted with the options reconnect and
\* reconnectInterval: no EventSource, no timeout, nothing connected.
\* sources: the readyState of every EventSource created, by creation order;
\* timeouts: every reconnect timeout set, by creation order, with its delay
\* and whether it is still to fire; survived: history, a disconnect() or an
\* unmount has run since and left it to fire;
\* delays: history, the delays that preceded the reconnection attempts made
\* since the connection was last open
HookNew(reconnect, reconnectInterval) ==
    [delays |-> << >>, error |-> FALSE, eventSourceRef |-> Null,
     isConnected |-> FALSE, isConnecting |-> FALSE, isMounted |-> TRUE,
     reconnect |-> reconnect, reconnectInterval |-> reconnectInterval,
     reconnectTimeoutRef |-> Null, sources |-> << >>, timeouts |-> << >>]

\* new EventSource(url) in connect(): the ref is set and the state says
\* connecting
connect(h) ==
    IF h.eventSourceRef # Null THEN h
    ELSE [h EXCEPT !.isConnecting = TRUE, !.error = FALSE,
                   !.sources = Append(h.sources, "connecting"),
                   !.eventSourceRef = Len(h.sources) + 1]

\* disconnect(): the timeout held by the ref is cleared, the EventSource held
\* by the ref is closed
disconnect(h) ==
    LET t == h.reconnectTimeoutRef
        e == h.eventSourceRef
    IN [h EXCEPT !.timeouts = IF t # Null THEN [@ EXCEPT ![t].armed = FALSE] ELSE @,
                 !.reconnectTimeoutRef = Null,
                 !.sources = IF e # Null THEN [@ EXCEPT ![e] = "closed"] ELSE @,
                 !.eventSourceRef = Null,
                 !.isConnected = FALSE, !.isConnecting = FALSE]

\* the delay of the reconnection scheduled by onerror: the option as passed,
\* for every attempt
ReconnectDelay(h) == h.reconnectInterval

\* eventSource.onopen
onopen(h) ==
    IF ~h.isMounted THEN h
    ELSE [h EXCEPT !.isConnected = TRUE, !.isConnecting = FALSE, !.error = FALSE,
                   !.delays = << >>]

\* eventSource.onerror: the state says error and, with reconnect on and an
\* EventSource in the ref, a timeout is set and the ref takes its handle
onerror(h) ==
    IF ~h.isMounted THEN h
    ELSE LET failed == [h EXCEPT !.isConnected = FALSE, !.isConnecting = FALSE,
                                 !.error = TRUE]
         IN IF h.reconnect /\ h.eventSourceRef # Null
            THEN [failed EXCEPT
                     !.timeouts = Append(@, [armed |-> TRUE, delay |-> ReconnectDelay(h),
                                            survived |-> FALSE]),
                     !.reconnectTimeoutRef = Len(h.timeouts) + 1]
            ELSE failed

\* the callback of reconnect timeout t: the ref is emptied and connect() runs
ontimeout(h, t) ==
    IF h.isMounted /\ h.eventSourceRef # Null
    THEN connect([h EXCEPT !.eventSourceRef = Null,
                           !.delays = Append(@, h.timeouts[t].delay)])
    ELSE h

----------------------------------------------------------------------------
(* The service: one SSEService instance from its construction on *)

EmptyMap == [x \in {} |-> {}]

NoOp == Op("new", NoArg, TRUE, 0, << >>, << >>, {})

ZeroMetrics == [totalConnections |-> 0, eventsDispatched |-> 0, errors |-> 0]

ServerInit(configs) ==
    /\ clients = EmptyMap
    /\ userClientMap = EmptyMap
    /\ sessionClientMap = EmptyMap
    /\ metrics = ZeroMetrics
    /\ config \in configs
    /\ heartbeatInterval = 1
    /\ cleanupInterval = 2
    /\ timers = SetInterval(SetInterval(EmptyMap, 1, "heartbeat", HeartbeatPeriod(config)),
                            2, "cleanup", CleanupPeriod(config))
    /\ pending = << >>
    /\ lastOp = NoOp

\* no page has mounted the hook with other options than the default ones
ServiceInit(configs) ==
    /\ ServerInit(configs)
    /\ sinkDepth = MaxSinkLog
    /\ hook = HookNew(TRUE, DefaultReconnectInterval)

\* the default instance at one instant: registrations, removals and sends
Init == ServiceInit({DefaultConfig})

Next ==
    \/ \E u \in UserIds \cup {Undefined}, s \in SessionIds \cup {Undefined} :
         CreateClient(u, s)
    \/ \E id \in ClientIds : RemoveClient(id)
    \/ \E id \in ClientIds : TransportCancel(id)
    \/ \E id \in ClientIds, st \in {"closed", "errored"} : SinkBreak(id, st)
    \/ Broadcast
    \/ \E u \in UserIds : SendToUser(u)
    \/ \E s \in SessionIds : SendToSession(s)
    \/ \E l \in ClientIdLists \cup {NotIterable} : SendToClients(l)
    \/ \E f \in MixedFilters \cup {EmptyFilter} : SendEvent(f)
    \/ \E o \in NotificationOptions : SendNotification(o)

Spec == Init /\ [][Next]_vars

\* the default instance over time: the two loops, sends, reset and shutdown
LoopInit == ServiceInit({DefaultConfig})

LoopNext ==
    \/ CreateClient("u1", "s1")
    \/ \E id \in ClientIds : RemoveClient(id)
    \/ \E id \in ClientIds : SinkBreak(id, "errored")
    \/ Broadcast
    \/ SendToUser("u1")
    \/ SendToSession("s1")
    \/ SendToClients(<<"c1">>)
    \/ SendEvent(EmptyFilter)
    \/ \E t \in TimerIds : HeartbeatTick(t)
    \/ \E t \in TimerIds : SweepTick(t)
    \/ Tick
    \/ Shutdown
    \/ Reset

LoopSpec == LoopInit /\ [][LoopNext]_vars

\* an instance whose heartbeat is too slow to keep its clients fresh, over time
SweepInit == ServiceInit({SlowHeartbeatConfig})

SweepNext ==
    \/ CreateClient("u1", "s1")
    \/ \E id \in ClientIds : RemoveClient(id)
    \/ \E id \in ClientIds : TransportCancel(id)
    \/ \E id \in ClientIds : SinkBreak(id, "errored")
    \/ \E t \in TimerIds : HeartbeatTick(t)
    \/ \E t \in TimerIds : SweepTick(t)
    \/ Tick
    \/ Shutdown
    \/ Reset

SweepSpec == SweepInit /\ [][SweepNext]_vars

\* the default instance with its loops running for ever: the runtime lets time
\* pass and fires every interval timer that is due
LivenessNext ==
    \/ CreateClient("u1", "s1")
    \/ \E id \in ClientIds : RemoveClient(id)
    \/ \E id \in ClientIds : SinkBreak(id, "errored")
    \/ \E t \in TimerIds : HeartbeatTick(t)
    \/ \E t \in TimerIds : SweepTick(t)
    \/ Tick

FairLoopSpec ==
    /\ LoopInit
    /\ [][LivenessNext]_vars
    /\ WF_vars(Tick)
    /\ \A t \in TimerIds : WF_vars(HeartbeatTick(t)) /\ WF_vars(SweepTick(t))

----------------------------------------------------------------------------
(* The registry on its own: an SSEClientManager driven through its public  *)
(* methods, with handles the caller builds                                 *)

ManagerInit ==
    /\ clients = EmptyMap
    /\ userClientMap = EmptyMap
    /\ sessionClientMap = EmptyMap
    /\ metrics = ZeroMetrics
    /\ config = DefaultConfig
    /\ heartbeatInterval = Null
    /\ cleanupInterval = Null
    /\ timers = EmptyMap
    /\ pending = << >>
    /\ sinkDepth = MaxSinkLog
    /\ hook = HookNew(TRUE, DefaultReconnectInterval)
    /\ lastOp = NoOp

\* addClient(client) with any handle, its id registered already or not
AddClient(client) ==
    LET added == addClient(client)
    IN /\ added.thrown \/ metrics.totalConnections < MaxTotalConnections
       /\ clients' = added.clients
       /\ userClientMap' = added.userClientMap
       /\ sessionClientMap' = added.sessionClientMap
       /\ metrics' = added.metrics
       /\ lastOp' = Op("addClient", [clientId |-> client.id], ~added.thrown, 0,
                       << >>, << >>, {})
       /\ UNCHANGED <<setup, aside, service>>

\* removeStaleClients() called at any time
RemoveStaleClients == Sweep /\ UNCHANGED <<metrics, setup, aside, service>>

\* cleanup() called at any time
CleanupAll ==
    /\ Cleanup
    /\ lastOp' = Removal(Op("cleanup", NoArg, TRUE, 0, getAllClients, << >>,
                            Handles(getAllClients)), cleanup)
    /\ UNCHANGED <<metrics, setup, aside, service>>

\* the connectedAt of a handle the caller builds: now, exactly one timeout
\* ago, or longer ago than the timeout
HandleAges == {0, config.clientTimeoutMs, config.clientTimeoutMs + 1}

ManagerNext ==
    \/ \E id \in ClientIds, u \in UserIds \cup {Undefined},
          s \in SessionIds \cup {Undefined}, a \in HandleAges :
         AddClient([NewClient(id, u, s, "readable") EXCEPT !.connectedAt = a])
    \/ \E id \in ClientIds : RemoveClient(id)
    \/ RemoveStaleClients
    \/ CleanupAll

ManagerSpec == ManagerInit /\ [][ManagerNext]_vars

----------------------------------------------------------------------------
(* The dispatcher on its own: formatSSEMessage and the event factories     *)
(* called with events and clock readings the caller chooses                *)

EventTypes == {"notification", ""}
EventIdValues == {Undefined, "", "abc"}
RetryValues == {Unset, 0, 3000}
Payloads ==
    {StringData(<< >>), StringData(<<"hello">>),
     StringData(<<"line1", Newline, "line2">>),
     StringData(<<"a", Newline, Newline, "b", Newline>>),
     ObjectData(<< >>), ObjectData(<< <<"message", "hi">> >>),
     ObjectData(<< <<"message", "hi">>, <<"type", "info">> >>),
     NullData, UndefinedData}
Events ==
    [id : EventIdValues, type : EventTypes, data : Payloads, retry : RetryValues]

\* the event of the documented example
ExampleEvent ==
    [id |-> "abc", type |-> "notification",
     data |-> ObjectData(<< <<"message", "hi">> >>), retry |-> Unset]

FactoryOps == {"createHeartbeatEvent", "createErrorEvent", "createConnectionEvent"}

Format(event) ==
    /\ LET out == formatSSEMessage(event)
       IN lastOp' = [Op("formatSSEMessage", [event |-> event], ~out.thrown, 0,
                        << >>, << >>, {})
                       EXCEPT !.text = out.formatted, !.now = lastOp.now]
    /\ UNCHANGED <<registry, metrics, service, setup, aside>>

\* one call of a factory at the clock reading now; result counts the calls
\* made in a row
Create(name, event, now) ==
    /\ now >= lastOp.now
    /\ lastOp.op \in FactoryOps => lastOp.result < MaxCalls
    /\ lastOp' = [Op(name, [event |-> event], TRUE,
                     IF lastOp.op \in FactoryOps THEN lastOp.result + 1 ELSE 1,
                     << >>, << >>, {})
                    EXCEPT !.text = <<event.id>>, !.now = now]
    /\ UNCHANGED <<registry, metrics, service, setup, aside>>

CreateHeartbeatEvent(now) == Create("createHeartbeatEvent", HeartbeatEvent(now), now)

CreateErrorEvent(now, message, code) ==
    Create("createErrorEvent", ErrorEvent(now, message, code), now)

CreateConnectionEvent(now) ==
    Create("createConnectionEvent", ConnectionEvent(now), now)

\* a created event is formatted as sendEventToClient does
FormatCreated ==
    /\ lastOp.op \in FactoryOps
    /\ Format(lastOp.arg.event)

DispatcherInit == ServiceInit({DefaultConfig}) /\ ExampleEvent \in Events

DispatcherNext ==
    \/ \E event \in Events : Format(event)
    \/ \E now \in 0 .. MaxClock : CreateHeartbeatEvent(now)
    \/ \E now \in 0 .. MaxClock, code \in {Undefined, "E_LIMIT"} :
         CreateErrorEvent(now, "failed", code)
    \/ \E now \in 0 .. MaxClock : CreateConnectionEvent(now)
    \/ FormatCreated

DispatcherSpec == DispatcherInit /\ [][DispatcherNext]_vars

----------------------------------------------------------------------------
(* The hook on its own: one mounted useSSE, its component calling connect  *)
(* and disconnect while it is mounted, the browser opening and failing the *)
(* EventSources and firing the timeouts                                    *)

MaxSources == 3
MaxTimeouts == 3

HookStep(name, h) ==
    /\ hook' = h
    /\ lastOp' = Op(name, NoArg, TRUE, 0, << >>, << >>, {})
    /\ UNCHANGED <<registry, metrics, service, setup, pending>>

\* history: the timeouts that a disconnect() left to fire
Survivors(h) ==
    [h EXCEPT !.timeouts = [t \in DOMAIN @ |->
                               [@[t] EXCEPT !.survived = @ \/ h.timeouts[t].armed]]]

Connect ==
    /\ hook.isMounted
    /\ Len(hook.sources) < MaxSources
    /\ HookStep("connect", connect(hook))

Disconnect ==
    /\ hook.isMounted
    /\ HookStep("disconnect", Survivors(disconnect(hook)))

\* the cleanup of the mount effect
Unmount ==
    /\ hook.isMounted
    /\ HookStep("unmount", Survivors(disconnect([hook EXCEPT !.isMounted = FALSE])))

\* the browser opens EventSource e
SourceOpen(e) ==
    /\ e \in DOMAIN hook.sources
    /\ hook.sources[e] = "connecting"
    /\ HookStep("onopen", onopen([hook EXCEPT !.sources[e] = "open"]))

\* the connection of EventSource e fails: the browser retries by itself
\* (readyState CONNECTING) or gives up (CLOSED), and fires error either way
SourceError(e, readyState) ==
    /\ e \in DOMAIN hook.sources
    /\ hook.sources[e] # "closed"
    /\ Len(hook.timeouts) < MaxTimeouts
    /\ HookStep("onerror", onerror([hook EXCEPT !.sources[e] = readyState]))

\* reconnect timeout t fires
ReconnectTimeout(t) ==
    /\ t \in DOMAIN hook.timeouts
    /\ hook.timeouts[t].armed
    /\ Len(hook.sources) < MaxSources
    /\ HookStep("reconnectTimeout",
                ontimeout([hook EXCEPT !.timeouts[t].armed = FALSE], t))

HookInit ==
    /\ ServerInit({DefaultConfig})
    /\ sinkDepth = MaxSinkLog
    /\ hook \in {HookNew(reconnect, reconnectInterval) :
                    reconnect \in BOOLEAN, reconnectInterval \in ReconnectIntervals}

HookNext ==
    \/ Connect
    \/ Disconnect
    \/ Unmount
    \/ \E e \in 1 .. MaxSources : SourceOpen(e)
    \/ \E e \in 1 .. MaxSources, readyState \in {"connecting", "closed"} :
         SourceError(e, readyState)
    \/ \E t \in 1 .. MaxTimeouts : ReconnectTimeout(t)

HookSpec == HookInit /\ [][HookNext]_vars

----------------------------------------------------------------------------
(* Sends in flight: sendEvent runs up to its await in the turn of the call *)
(* (targets resolved, every write made) and continues in a later turn      *)
(* (counter, return value).  Calls the caller makes in between, other      *)
(* sends included, run in between; timers fire only between turns.         *)

FlightSinkLog == 3

\* the event of the k-th send issued
IssuedEvent(k) == "e" \o ToString(k)

\* the sends issued so far that resolved targets
IssuedSends == metrics.eventsDispatched + Len(pending)

\* mutant: the count is taken again when the send continues, over the handles
\* still registered
successCountOfRegistered(call) ==
    Len(SelectSeq(call.written, LAMBDA id : id \in DOMAIN clients))

\* successCount as sendEventToClients gave it before the await
successCount(call) == call.result

\* sendEvent up to its await
SendStart(hasFilter, filter) ==
    LET targets == IF hasFilter THEN getClientsByFilter(filter) ELSE getAllClients
        sent == sendEventToClients(targets)
        event == IssuedEvent(IssuedSends + 1)
        arg == [event |-> event, filter |-> filter]
    IN /\ ~(hasFilter /\ getClientsByFilterThrows(filter))
       /\ IssuedSends < MaxEventsDispatched
       /\ IF Len(targets) = 0
          THEN /\ lastOp' = Op("sendEvent", arg, TRUE, 0, targets, << >>, {})
               /\ UNCHANGED <<clients, pending>>
          ELSE /\ clients' = enqueueEach(clients, sent.written, event)
               /\ pending' = Append(pending,
                                    [arg |-> arg, result |-> sent.successCount,
                                     targets |-> targets, written |-> sent.written])
               /\ lastOp' = Op("sendStart", arg, TRUE, 0, targets, sent.written, {})
       /\ UNCHANGED <<userClientMap, sessionClientMap, metrics, setup, service, hook>>

\* mutant: the per-client writes are made again when the send continues, to
\* the handles then registered under the ids it resolved
SendFinishWrites(i) ==
    /\ i \in DOMAIN pending
    /\ metrics' = incrementEventsDispatched(metrics)
    /\ clients' = enqueueEach(clients,
                              SelectSeq(pending[i].written,
                                        LAMBDA id : id \in DOMAIN clients),
                              pending[i].arg.event)
    /\ pending' = SubSeq(pending, 1, i - 1) \o SubSeq(pending, i + 1, Len(pending))
    /\ lastOp' = Op("sendFinish", pending[i].arg, TRUE, successCount(pending[i]),
                    pending[i].targets, pending[i].written, {})
    /\ UNCHANGED <<userClientMap, sessionClientMap, setup, service, hook>>

\* sendEvent from its await on: the counter, then the return value
SendFinish(i) ==
    /\ i \in DOMAIN pending
    /\ metrics' = incrementEventsDispatched(metrics)
    /\ pending' = SubSeq(pending, 1, i - 1) \o SubSeq(pending, i + 1, Len(pending))
    /\ lastOp' = Op("sendFinish", pending[i].arg, TRUE, successCount(pending[i]),
                    pending[i].targets, pending[i].written, {})
    /\ UNCHANGED <<registry, setup, service, hook>>

FlightInit ==
    /\ ServerInit({DefaultConfig})
    /\ sinkDepth = FlightSinkLog
    /\ hook = HookNew(TRUE, DefaultReconnectInterval)

FlightNext ==
    \/ CreateClient("u1", "s1")
    \/ \E id \in ClientIds : RemoveClient(id)
    \/ SinkBreak("c1", "closed")
    \/ SendStart(FALSE, EmptyFilter)
    \/ SendStart(TRUE, [userId |-> "u1"])
    \/ \E i \in 1 .. MaxEventsDispatched : SendFinish(i)
    \/ \E t \in TimerIds : pending = << >> /\ HeartbeatTick(t)
    \/ \E t \in TimerIds : pending = << >> /\ SweepTick(t)
    \/ pending = << >> /\ Tick

FlightSpec == FlightInit /\ [][FlightNext]_vars

----------------------------------------------------------------------------
(* Properties *)

SendOps ==
    {"broadcast", "sendToUser", "sendToSession", "sendToClients", "sendEvent",
     "sendNotification"}

\* an index holds exactly the registered ids, grouped by the handle's field
IndexMatches(map, field) ==
    /\ \A k \in DOMAIN map : \A id \in map[k] :
          id \in DOMAIN clients /\ clients[id][field] = k
    /\ \A id \in DOMAIN clients :
          Truthy(clients[id][field]) =>
              /\ clients[id][field] \in DOMAIN map
              /\ id \in map[clients[id][field]]

\* C1: after any sequence of addClient / removeClient / removeStaleClients /
\* cleanup, the userId index and the sessionId index contain exactly the ids of
\* the registered handles grouped by their userId / sessionId.
C1_IndexesMatchRegistry ==
    /\ IndexMatches(userClientMap, "userId")
    /\ IndexMatches(sessionClientMap, "sessionId")

\* C2: every key present in the userId index or the sessionId index maps to a
\* non-empty set; removing the last member of a set deletes the key.
C2_NoEmptyIndexSet ==
    /\ \A k \in DOMAIN userClientMap : userClientMap[k] # {}
    /\ \A k \in DOMAIN sessionClientMap : sessionClientMap[k] # {}

\* a removal took out the only handle of a user and of a session, and both
\* keys are gone
C2_Witness ==
    /\ lastOp.op \in {"removeClient", "sweep", "cleanup"}
    /\ \E h \in lastOp.removed :
          /\ Truthy(h.userId) /\ h.userId \notin DOMAIN userClientMap
          /\ Truthy(h.sessionId) /\ h.sessionId \notin DOMAIN sessionClientMap
    /\ clients # EmptyMap

\* C3: addClient called when the registry size equals maxClients raises and
\* leaves the primary map, both indexes and totalConnections as they were.
C3_FullRegistryRejects ==
    [][(lastOp'.op = "addClient" /\ Cardinality(DOMAIN clients) = config.maxClients)
          => /\ ~lastOp'.ok
             /\ UNCHANGED <<clients, userClientMap, sessionClientMap, metrics>>]_vars

\* an addClient on a full registry has just raised
C3_Witness ==
    /\ lastOp.op = "addClient"
    /\ ~lastOp.ok
    /\ Cardinality(DOMAIN clients) = config.maxClients

Healthy(id) == clients[id].controller = "readable"

\* C4: a send returns exactly the number of targeted handles whose sink
\* accepted the write (0 for no target), and every such handle is written
\* whatever the other sinks did.
C4_CountIsAcceptedWrites ==
    lastOp.op \in SendOps =>
        /\ lastOp.result =
              Cardinality({i \in DOMAIN lastOp.targets : Healthy(lastOp.targets[i])})
        /\ lastOp.written = SelectSeq(lastOp.targets, Healthy)

\* a send to two handles, one of which rejected the write, returned 1
C4_Witness ==
    /\ lastOp.op \in SendOps
    /\ Len(lastOp.targets) = 2
    /\ \E i, j \in DOMAIN lastOp.targets :
          Healthy(lastOp.targets[i]) /\ ~Healthy(lastOp.targets[j])
    /\ lastOp.result = 1

\* a handle but for its lastPing and what its sink holds
Identity(client) == [client EXCEPT !.lastPing = Unset, !.sink = << >>]

\* C5: no send operation and no heartbeat tick removes a handle or changes
\* the primary map or the indexes.
C5_SendsKeepRegistry ==
    [][lastOp'.op \in SendOps \cup {"heartbeat"}
          => /\ DOMAIN clients' = DOMAIN clients
             /\ \A id \in DOMAIN clients : Identity(clients'[id]) = Identity(clients[id])
             /\ UNCHANGED <<userClientMap, sessionClientMap>>]_vars

\* a send has just failed to write to a handle, which is still registered
C5_Witness ==
    /\ lastOp.op \in SendOps
    /\ \E id \in Range(lastOp.targets) :
          id \notin Range(lastOp.written) /\ id \in DOMAIN clients

\* a heartbeat tick has just failed to write to a handle, which is still
\* registered
C5_HeartbeatWitness ==
    /\ lastOp.op = "heartbeat"
    /\ \E id \in Range(lastOp.targets) :
          id \notin Range(lastOp.written) /\ id \in DOMAIN clients

AllHealthy == \A id \in DOMAIN clients : Healthy(id)

\* the last send wrote once to each handle of the set and returned its size
WroteExactly(ids) ==
    /\ Range(lastOp.written) = ids
    /\ Len(lastOp.written) = Cardinality(ids)
    /\ lastOp.result = Cardinality(ids)

\* C6: with all sinks healthy, sendToUser(u) writes to exactly the registered
\* handles whose userId is u and returns their number, sendToSession(s) does
\* the same for sessionId s, and broadcast writes to every registered handle
\* and returns the registry size.
C6_TargetedDelivery ==
    AllHealthy =>
        /\ lastOp.op = "sendToUser" =>
              WroteExactly({id \in DOMAIN clients :
                               clients[id].userId = lastOp.arg.userId})
        /\ lastOp.op = "sendToSession" =>
              WroteExactly({id \in DOMAIN clients :
                               clients[id].sessionId = lastOp.arg.sessionId})
        /\ lastOp.op = "broadcast" => WroteExactly(DOMAIN clients)

\* sendToUser has reached one of two healthy registered handles
C6_Witness ==
    /\ AllHealthy
    /\ lastOp.op = "sendToUser"
    /\ Cardinality(DOMAIN clients) = 2
    /\ lastOp.result = 1

\* C7: a filter in which none of clientIds, userId, sessionId is set means
\* "all": sendEvent with such a filter, as sendNotification builds it when it
\* is called without targeting options, targets every registered handle.
C7_EmptyFilterMeansAll ==
    (lastOp.op \in {"sendEvent", "sendNotification"} /\ DOMAIN lastOp.arg = {})
        => Range(lastOp.targets) = DOMAIN clients

\* shutdown() was the last of shutdown() and reset() to run
ShutDown == heartbeatInterval = Null /\ cleanupInterval = Null

\* C8: after shutdown() returns, following any sequence of operations (reset()
\* calls included), getActiveClientCount() is 0 and neither the heartbeat loop
\* nor the idle-sweep loop fires again.
C8_ShutdownStopsLoops ==
    /\ lastOp.op = "shutdown" => Cardinality(DOMAIN clients) = 0
    /\ ShutDown => lastOp.op \notin {"heartbeat", "sweep"}

\* C9: while the idle-sweep loop runs with period clientTimeoutMs / 2, no
\* handle stays registered longer than 1.5 x clientTimeoutMs after its lastPing
\* (its connectedAt when lastPing is unset).
C9_EvictedWithinOneAndAHalfTimeouts ==
    cleanupInterval # Null =>
        \A id \in DOMAIN clients :
            2 * timeSinceLastPing(clients[id]) <= 3 * config.clientTimeoutMs

\* a sweep has just evicted a handle exactly 1.5 x clientTimeoutMs after its
\* timestamp
C9_Witness ==
    /\ lastOp.op = "sweep"
    /\ cleanupInterval # Null
    /\ \E h \in lastOp.removed :
          2 * timeSinceLastPing(h) = 3 * config.clientTimeoutMs

\* C10: with both loops running and the heartbeat interval shorter than the
\* client timeout, a registered client whose sink rejects every write is
\* eventually removed from the registry.
C10_DeadClientEventuallyRemoved ==
    \A id \in ClientIds :
        (/\ id \in DOMAIN clients
         /\ clients[id].controller # "readable"
         /\ ~ShutDown
         /\ config.heartbeatInterval < config.clientTimeoutMs)
            ~> (id \notin DOMAIN clients)

\* the idle time of a handle: since its lastPing when that is set, else since
\* its connectedAt
IdleTime(client) ==
    IF client.lastPing # Unset THEN client.lastPing ELSE client.connectedAt

Idle == {id \in DOMAIN clients : IdleTime(clients[id]) > config.clientTimeoutMs}

\* C11: removeStaleClients evicts exactly the handles whose idle time is
\* strictly greater than clientTimeoutMs and returns their number; a handle idle
\* for exactly clientTimeoutMs stays, and no other handle is touched.
C11_SweepEvictsExactlyTheIdle ==
    [][lastOp'.op = "sweep"
          => /\ DOMAIN clients' = DOMAIN clients \ Idle
             /\ \A id \in DOMAIN clients' : clients'[id] = clients[id]
             /\ lastOp'.removed = {clients[id] : id \in Idle}
             /\ lastOp'.result = Cardinality(Idle)]_vars

\* a sweep has just evicted a handle by its lastPing and left a handle that
\* has never been pinged and is idle for exactly the timeout
C11_Witness ==
    /\ lastOp.op = "sweep"
    /\ lastOp.result = 1
    /\ \E h \in lastOp.removed : h.lastPing = config.clientTimeoutMs + 1
    /\ \E id \in DOMAIN clients :
          /\ clients[id].lastPing = Unset
          /\ clients[id].connectedAt = config.clientTimeoutMs

\* C12: after a removeClient(id) that returned true, a second removeClient(id)
\* returns false, raises nothing and leaves the primary map, the indexes and
\* the counters unchanged.
C12_RemoveClientIdempotent ==
    [][(/\ lastOp.op = "removeClient"
        /\ lastOp.result = 1
        /\ lastOp'.op = "removeClient"
        /\ lastOp'.arg = lastOp.arg)
          => /\ lastOp'.ok
             /\ lastOp'.result = 0
             /\ UNCHANGED <<clients, userClientMap, sessionClientMap, metrics>>]_vars

\* removeClient(id) has just run a second time after it had returned true,
\* with another handle still registered
C12_Witness ==
    /\ lastOp.op = "removeClient"
    /\ lastOp.repeat
    /\ lastOp.result = 0
    /\ clients # EmptyMap

\* C13: immediately after reset(), getMetrics() reports 0 for totalConnections,
\* eventsDispatched and errors, and 0 active connections.
C13_ResetZerosCounters ==
    lastOp.op = "reset" =>
        /\ metrics = ZeroMetrics
        /\ Cardinality(DOMAIN clients) = 0

TimersOf(kind) == {t \in DOMAIN timers : timers[t].kind = kind}

\* C14: after any number of reset() calls on a running service, exactly one
\* heartbeat timer and exactly one idle-sweep timer are active.
C14_OneTimerPerLoop ==
    ~ShutDown =>
        /\ Cardinality(TimersOf("heartbeat")) = 1
        /\ Cardinality(TimersOf("cleanup")) = 1

\* C15: after shutdown(), no send writes an event to any sink, the sinks of
\* clients created after the shutdown included.
C15_NoWriteAfterShutdown ==
    (ShutDown /\ lastOp.op \in SendOps) => lastOp.written = << >>

\* C16: createClient on a full registry raises the capacity error, leaves the
\* stream it built errored and registers no handle under the generated id:
\* registry size, indexes and totalConnections stay as they were.
C16_FullRegistryFailsCreate ==
    [][(lastOp'.op = "createClient" /\ Cardinality(DOMAIN clients) >= config.maxClients)
          => /\ ~lastOp'.ok
             /\ lastOp'.stream = "errored"
             /\ lastOp'.arg.clientId \notin DOMAIN clients'
             /\ UNCHANGED <<clients, userClientMap, sessionClientMap>>
             /\ metrics'.totalConnections = metrics.totalConnections]_vars

\* a createClient on a full registry has just raised and errored its stream
C16_Witness ==
    /\ lastOp.op = "createClient"
    /\ ~lastOp.ok
    /\ lastOp.stream = "errored"
    /\ Cardinality(DOMAIN clients) = config.maxClients

ConnectionEvents(sink) == {i \in DOMAIN sink : sink[i] = createConnectionEvent}

\* C17: a successful createClient writes exactly one connection event to the
\* sink of the new handle, and that event is the first one the sink receives.
C17_ConnectionEventFirst ==
    /\ (lastOp.op = "createClient" /\ lastOp.ok)
          => lastOp.written = <<lastOp.arg.clientId>>
    /\ \A id \in DOMAIN clients :
          /\ clients[id].sink # << >>
          /\ Head(clients[id].sink) = createConnectionEvent
          /\ Cardinality(ConnectionEvents(clients[id].sink)) = 1

\* a send or a heartbeat has just written to a registered handle whose sink
\* had received the connection event before
C17_Witness ==
    /\ lastOp.op \in SendOps \cup {"heartbeat"}
    /\ \E id \in Range(lastOp.written) :
          /\ id \in DOMAIN clients
          /\ Head(clients[id].sink) = createConnectionEvent

\* C18: when a sink rejects a write during a send, the send returns normally,
\* the failing client is left out of the returned count, and the errors
\* counter increases.
C18_SinkFailureCounted ==
    [][(lastOp'.op \in SendOps /\ Len(lastOp'.written) < Len(lastOp'.targets))
          => /\ lastOp'.ok
             /\ lastOp'.result = Len(lastOp'.written)
             /\ metrics'.errors > metrics.errors]_vars

\* the call passed a clientIds value the registry cannot iterate
Malformed(op) == op.op = "sendToClients" /\ op.arg.clientIds = NotIterable

\* C19: a send whose target set resolves to no registered handle returns 0
\* without raising, writes to no sink and changes neither eventsDispatched nor
\* errors.
C19_NoMatchIsZero ==
    [][(lastOp'.op \in SendOps /\ ~Malformed(lastOp') /\ lastOp'.targets = << >>)
          => /\ lastOp'.ok
             /\ lastOp'.result = 0
             /\ lastOp'.written = << >>
             /\ UNCHANGED <<clients, metrics>>]_vars

\* a send has just matched none of the registered handles and returned 0
C19_Witness ==
    /\ lastOp.op \in SendOps
    /\ lastOp.ok
    /\ lastOp.targets = << >>
    /\ lastOp.result = 0
    /\ clients # EmptyMap

\* C20: a send raises to its caller if and only if it incremented the errors
\* counter, by exactly one; a send that raises does not increment
\* eventsDispatched.
C20_RaisesIffErrorCounted ==
    [][lastOp'.op \in SendOps
          => /\ ~lastOp'.ok <=> metrics'.errors = metrics.errors + 1
             /\ lastOp'.ok => metrics'.errors = metrics.errors
             /\ ~lastOp'.ok => metrics'.eventsDispatched = metrics.eventsDispatched]_vars

\* a send has just raised, with handles registered, and the error is counted
C20_Witness ==
    /\ lastOp.op \in SendOps
    /\ ~lastOp.ok
    /\ metrics.errors = 1
    /\ clients # EmptyMap

\* C21: of an explicit removeClient(id), a transport cancel for id and a sweep
\* eviction of id, in any order, the one that finds the id registered returns
\* true (or counts the eviction) and attempts the close of the sink, once;
\* every other one finds the id absent, returns false and closes nothing.
C21_OneRemovalWins ==
    [][lastOp'.op \in {"removeClient", "cancel", "sweep"}
          => LET gone == DOMAIN clients \ DOMAIN clients'
             IN /\ lastOp'.ok
                /\ DOMAIN clients' \subseteq DOMAIN clients
                /\ lastOp'.op # "sweep" =>
                      /\ gone = {lastOp'.arg.clientId} \cap DOMAIN clients
                      /\ lastOp'.result = Cardinality(gone)
                /\ lastOp'.op = "sweep" =>
                      /\ gone = Idle
                      /\ lastOp'.result = Cardinality(gone)
                /\ Range(lastOp'.closed) = gone
                /\ Len(lastOp'.closed) = Cardinality(gone)]_vars

\* a transport cancel has just arrived for an id that the operation before
\* had removed: it returned false and closed nothing
C21_Witness ==
    /\ lastOp.op = "cancel"
    /\ lastOp.repeat
    /\ lastOp.result = 0
    /\ lastOp.closed = << >>
    /\ clients # EmptyMap

\* C24: removeClient of a registered id whose sink close fails still removes
\* the handle from the primary map and from both indexes and returns true; the
\* close failure does not reach the caller.
C24_CloseFailureStillRemoves ==
    [][(/\ lastOp'.op = "removeClient"
        /\ lastOp'.arg.clientId \in DOMAIN clients
        /\ closeThrows(clients[lastOp'.arg.clientId]))
          => /\ lastOp'.ok
             /\ lastOp'.result = 1
             /\ lastOp'.arg.clientId \notin DOMAIN clients'
             /\ \A k \in DOMAIN userClientMap' :
                   lastOp'.arg.clientId \notin userClientMap'[k]
             /\ \A k \in DOMAIN sessionClientMap' :
                   lastOp'.arg.clientId \notin sessionClientMap'[k]]_vars

\* removeClient has just removed a handle whose controller could not be
\* closed, and which was indexed by user and by session
C24_Witness ==
    /\ lastOp.op = "removeClient"
    /\ lastOp.result = 1
    /\ \E h \in lastOp.removed :
          closeThrows(h) /\ Truthy(h.userId) /\ Truthy(h.sessionId)

\* C28: a heartbeat tick on a non-empty registry writes the heartbeat event to
\* every registered handle and then sets the lastPing of every one of them to
\* the tick time, whether its write succeeded or not; on an empty registry it
\* writes nothing and changes no state.
C28_HeartbeatStampsEveryHandle ==
    [][lastOp'.op = "heartbeat"
          => /\ Range(lastOp'.targets) = DOMAIN clients
             /\ Len(lastOp'.targets) = Cardinality(DOMAIN clients)
             /\ lastOp'.written = SelectSeq(lastOp'.targets, Healthy)
             /\ DOMAIN clients' = DOMAIN clients
             /\ \A id \in DOMAIN clients :
                   /\ clients'[id].lastPing = 0
                   /\ clients'[id].sink =
                         IF Healthy(id) /\ Len(clients[id].sink) < sinkDepth
                         THEN Append(clients[id].sink, createHeartbeatEvent)
                         ELSE clients[id].sink
             /\ UNCHANGED <<userClientMap, sessionClientMap, metrics>>]_vars

\* a heartbeat tick has just stamped two handles, one that took the event and
\* one that rejected it
C28_Witness ==
    /\ lastOp.op = "heartbeat"
    /\ Len(lastOp.targets) = 2
    /\ Len(lastOp.written) = 1
    /\ \A id \in Range(lastOp.targets) :
          id \in DOMAIN clients /\ clients[id].lastPing = 0

Period(kind) ==
    IF kind = "heartbeat" THEN HeartbeatPeriod(config) ELSE CleanupPeriod(config)

\* C29: a failure inside an iteration of a background loop does not end the
\* loop: a heartbeat tick (every write may fail) and a sweep (a close may
\* fail) leave every timer alive and the one that fired due again one period
\* later, and the service keeps its timer handles.
C29_LoopsSurviveFailures ==
    [][lastOp'.op \in {"heartbeat", "sweep"}
          => /\ DOMAIN timers' = DOMAIN timers
             /\ UNCHANGED <<heartbeatInterval, cleanupInterval>>
             /\ \E t \in DOMAIN timers :
                   /\ timers[t].due = 0
                   /\ timers[t].kind = (IF lastOp'.op = "heartbeat"
                                        THEN "heartbeat" ELSE "cleanup")
                   /\ timers'[t] = [timers[t] EXCEPT !.due = Period(timers[t].kind)]
                   /\ \A u \in DOMAIN timers \ {t} : timers'[u] = timers[u]]_vars

\* the sweep loop has just evicted a handle whose close failed, and its timer
\* is set for the next sweep
C29_Witness ==
    /\ lastOp.op = "sweep"
    /\ \E h \in lastOp.removed : closeThrows(h)
    /\ cleanupInterval \in DOMAIN timers
    /\ timers[cleanupInterval].due = CleanupPeriod(config)

\* the heartbeat loop has just run an iteration in which every write failed,
\* and its timer is set for the next heartbeat
C29_HeartbeatWitness ==
    /\ lastOp.op = "heartbeat"
    /\ lastOp.targets # << >>
    /\ lastOp.written = << >>
    /\ heartbeatInterval \in DOMAIN timers
    /\ timers[heartbeatInterval].due = HeartbeatPeriod(config)

\* C30: eventsDispatched increases by exactly one for each send that resolves
\* a non-empty target set and does not raise, however many targets it had and
\* however many writes succeeded; no other operation changes it.
C30_OneDispatchPerSend ==
    [][metrics'.eventsDispatched =
          IF lastOp'.op \in SendOps /\ lastOp'.ok /\ lastOp'.targets # << >>
          THEN metrics.eventsDispatched + 1
          ELSE metrics.eventsDispatched]_vars

\* a send to two handles, one of which rejected the write, has been counted
\* once
C30_Witness ==
    /\ lastOp.op \in SendOps
    /\ Len(lastOp.targets) = 2
    /\ lastOp.result = 1
    /\ metrics.eventsDispatched = 1

\* the lines of a text as strings
TextLines(text) == LET ls == split(text) IN [i \in DOMAIN ls |-> Concat(ls[i])]

\* the serialized payload of an event
Payload(event) ==
    IF event.data.kind = "string" THEN event.data.pieces ELSE JSONstringify(event.data)

\* the header lines an event calls for, in wire order
HeaderLines(event) ==
    (IF TruthyString(event.type) THEN <<"event: " \o event.type>> ELSE << >>)
    \o (IF TruthyString(event.id) THEN <<"id: " \o event.id>> ELSE << >>)
    \o (IF TruthyNumber(event.retry)
        THEN <<"retry: " \o ToString(event.retry)>> ELSE << >>)

\* C25: for an event whose payload serializes, formatSSEMessage emits the
\* event line when the type is present, the id line when the id is present,
\* the retry line when retry is present and not zero, in this order, then one
\* data line for each line of the serialized payload, then exactly one blank
\* line; the event notification / {"message":"hi"} / abc gives exactly
\* event: notification\nid: abc\ndata: {"message":"hi"}\n\n.
C25_WireFormat ==
    (lastOp.op = "formatSSEMessage"
        /\ (lastOp.arg.event.data.kind = "string" \/ Serializes(lastOp.arg.event.data)))
    => LET event == lastOp.arg.event
           lines == TextLines(lastOp.text)
           header == HeaderLines(event)
           payload == TextLines(Payload(event))
           h == Len(header)
           n == Len(payload)
       IN /\ lastOp.ok
          /\ Len(lines) = h + n + 2
          /\ \A i \in 1 .. h : lines[i] = header[i]
          /\ \A i \in 1 .. n : lines[h + i] = "data: " \o payload[i]
          /\ lines[h + n + 1] = ""
          /\ lines[h + n + 2] = ""
          /\ event = ExampleEvent =>
                Concat(lastOp.text)
                   = "event: notification\nid: abc\ndata: {\"message\":\"hi\"}\n\n"

\* an event with type, id, retry and a payload of two lines has been formatted
C25_Witness ==
    /\ lastOp.op = "formatSSEMessage"
    /\ lastOp.arg.event.data = StringData(<<"line1", Newline, "line2">>)
    /\ TruthyString(lastOp.arg.event.type)
    /\ TruthyString(lastOp.arg.event.id)
    /\ TruthyNumber(lastOp.arg.event.retry)
    /\ Len(TextLines(lastOp.text)) = 7

\* the event of the example has been formatted
C25_ExampleWitness ==
    /\ lastOp.op = "formatSSEMessage"
    /\ lastOp.arg.event = ExampleEvent
    /\ lastOp.text # << >>

\* C26: two calls of the same factory never return events with the same id,
\* also when both are made at the same clock reading (stated for two calls in
\* a row).
C26_FactoryIdsUnique ==
    [][(lastOp.op \in FactoryOps /\ lastOp'.op = lastOp.op)
          => lastOp'.text # lastOp.text]_vars

\* C27: the hook reconnects with exponential backoff: of the reconnection
\* attempts made in a row without the connection opening in between, each
\* comes after a longer delay than the one before it (which exponential
\* growth implies).
C27_BackoffGrows ==
    \A k \in 2 .. Len(hook.delays) : hook.delays[k] > hook.delays[k - 1]

\* C22 (as amended): a removal made while a send is in flight does not change
\* what the send reports.  The send continues without raising and returns the
\* number of writes its sinks accepted when it was issued, the removed
\* client's included; the removal succeeds, leaves the waiting sends and the
\* other handles as they were, and the indexes match the registry afterwards.
C22_RemovalInFlightKeepsOutcome ==
    [][/\ lastOp'.op = "sendFinish"
            => \E i \in DOMAIN pending :
                  /\ lastOp'.ok
                  /\ lastOp'.targets = pending[i].targets
                  /\ lastOp'.written = pending[i].written
                  /\ lastOp'.result = Len(pending[i].written)
                  /\ metrics'.eventsDispatched = metrics.eventsDispatched + 1
                  /\ UNCHANGED registry
       /\ (lastOp'.op = "removeClient" /\ pending # << >>)
            => /\ lastOp'.ok
               /\ pending' = pending
               /\ DOMAIN clients' = DOMAIN clients \ {lastOp'.arg.clientId}
               /\ \A id \in DOMAIN clients' : clients'[id] = clients[id]
       /\ IndexMatches(userClientMap, "userId")'
       /\ IndexMatches(sessionClientMap, "sessionId")']_vars

\* a send to two handles has returned 2 after one of them was removed while it
\* was in flight
C22_Witness ==
    /\ lastOp.op = "sendFinish"
    /\ Len(lastOp.targets) = 2
    /\ lastOp.result = 2
    /\ Cardinality(Range(lastOp.targets) \cap DOMAIN clients) = 1
    /\ metrics.totalConnections = 2

\* C22 (as stated): a target removed while the send was in flight is reported
\* as a failed write and left out of the count.
C22_RemovedTargetNotCounted ==
    [][lastOp'.op = "sendFinish"
          => \A id \in Range(lastOp'.targets) :
                id \notin DOMAIN clients => id \notin Range(lastOp'.written)]_vars

\* the event a step issues, if it issues one
Issued(op) ==
    IF op.op = "sendStart" THEN op.arg.event
    ELSE IF op.op = "heartbeat" THEN createHeartbeatEvent
    ELSE Undefined

\* in every sink the events of the sends stand in the order of their issue
SinkOrdered ==
    \A id \in DOMAIN clients :
       LET sink == clients[id].sink
       IN \A i, j \in DOMAIN sink : \A a, b \in 1 .. MaxEventsDispatched :
             (i < j /\ sink[i] = IssuedEvent(a) /\ sink[j] = IssuedEvent(b)) => a < b

\* C23: a sink receives the events written to it in the order the service
\* issued them, under any interleaving of sends in flight: the step that
\* issues an event (a send, a heartbeat tick, the acknowledgment of a new
\* connection) puts it at the tail of every sink that accepts it, and no other
\* step changes a sink.
C23_WritesLandInIssueOrder ==
    [][/\ \A id \in DOMAIN clients \cap DOMAIN clients' :
             clients'[id].sink =
                IF /\ Issued(lastOp') # Undefined
                   /\ id \in Range(lastOp'.written)
                   /\ Len(clients[id].sink) < sinkDepth
                THEN Append(clients[id].sink, Issued(lastOp'))
                ELSE clients[id].sink
       /\ \A id \in DOMAIN clients' \ DOMAIN clients :
             clients'[id].sink = <<createConnectionEvent>>
       /\ SinkOrdered']_vars

\* a sink holds the acknowledgment and then the events of two sends, both of
\* which are still in flight
C23_Witness ==
    /\ Len(pending) = 2
    /\ \E id \in DOMAIN clients :
          clients[id].sink = <<createConnectionEvent, IssuedEvent(1), IssuedEvent(2)>>

\* C31: getClientsByFilter with explicit clientIds returns the handles of
\* exactly the listed ids that are registered, skips the ids that are not, and
\* does not raise for a list that is stale in part or in whole.
C31_StaleIdsSkipped ==
    [][(lastOp'.op = "sendToClients" /\ lastOp'.arg.clientIds # NotIterable)
          => /\ lastOp'.ok
             /\ Range(lastOp'.targets) = Range(lastOp'.arg.clientIds) \cap DOMAIN clients
             /\ Len(lastOp'.targets) =
                   Cardinality({i \in DOMAIN lastOp'.arg.clientIds :
                                   lastOp'.arg.clientIds[i] \in DOMAIN clients})
             /\ metrics'.errors = metrics.errors]_vars

\* a send to a list whose first id is not registered and whose second id is
\* has resolved the second
C31_Witness ==
    /\ lastOp.op = "sendToClients"
    /\ Len(lastOp.arg.clientIds) = 2
    /\ lastOp.arg.clientIds[1] \notin DOMAIN clients
    /\ lastOp.targets = <<lastOp.arg.clientIds[2]>>
    /\ lastOp.ok

\* C32: after cleanup, also when shutdown() or reset() runs it, the primary
\* map and both indexes are empty and a close has been attempted, once, on the
\* sink of every handle that was registered when it began, whether or not a
\* close failed; the call does not raise.
C32_CleanupEmptiesAndCloses ==
    [][lastOp'.op \in {"cleanup", "shutdown", "reset"}
          => /\ lastOp'.ok
             /\ clients' = EmptyMap
             /\ userClientMap' = EmptyMap
             /\ sessionClientMap' = EmptyMap
             /\ Range(lastOp'.closed) = DOMAIN clients
             /\ Len(lastOp'.closed) = Cardinality(DOMAIN clients)]_vars

\* C33: when the transport cancels the stream of a registered client, the
\* handle leaves the registry and both indexes, and the removal completes
\* without raising although the controller of the cancelled stream can no
\* longer be closed.
C33_CancelRemovesClient ==
    [][(lastOp'.op = "cancel" /\ lastOp'.arg.clientId \in DOMAIN clients)
          => LET id == lastOp'.arg.clientId
             IN /\ lastOp'.ok
                /\ lastOp'.result = 1
                /\ DOMAIN clients' = DOMAIN clients \ {id}
                /\ \A other \in DOMAIN clients' : clients'[other] = clients[other]
                /\ \A k \in DOMAIN userClientMap' : id \notin userClientMap'[k]
                /\ \A k \in DOMAIN sessionClientMap' : id \notin sessionClientMap'[k]
                /\ IndexMatches(userClientMap, "userId")'
                /\ IndexMatches(sessionClientMap, "sessionId")'
                /\ lastOp'.closed = <<id>>]_vars

\* the stream of a client with a user and a session has been cancelled while
\* another client stays registered
C33_Witness ==
    /\ lastOp.op = "cancel"
    /\ lastOp.result = 1
    /\ lastOp.stream = "closed"
    /\ \E h \in lastOp.removed : Truthy(h.userId) /\ Truthy(h.sessionId)
    /\ clients # EmptyMap

\* C34: in every reachable state the number of registered handles is at most
\* maxClients, whatever the interleaving of createClient, removeClient, sweep
\* evictions, reset and shutdown; and a createClient that finds a free slot,
\* one freed by a removal or an eviction included, registers its client.
C34_NeverOverCapacity ==
    [][/\ Cardinality(DOMAIN clients') <= config.maxClients
       /\ (lastOp'.op = "createClient"
             /\ Cardinality(DOMAIN clients) < config.maxClients)
            => /\ lastOp'.ok
               /\ DOMAIN clients' = DOMAIN clients \cup {lastOp'.arg.clientId}
               /\ Cardinality(DOMAIN clients') = Cardinality(DOMAIN clients) + 1]_vars

\* a createClient has filled the registry again after more clients were
\* admitted than it holds: it took a slot that a removal had freed
C34_Witness ==
    /\ lastOp.op = "createClient"
    /\ lastOp.ok
    /\ Cardinality(DOMAIN clients) = config.maxClients
    /\ metrics.totalConnections > config.maxClients

\* C35: the filter of a send selects each registered handle at most once,
\* also for a filter with both userId and sessionId and for a clientIds list
\* that repeats an id; so one send writes to a client at most once and returns
\* at most the number of registered clients.
C35_EachHandleOnce ==
    [][(lastOp'.op \in SendOps /\ lastOp'.ok)
         => /\ \A i, j \in DOMAIN lastOp'.targets :
                 lastOp'.targets[i] = lastOp'.targets[j] => i = j
            /\ lastOp'.result <= Cardinality(DOMAIN clients)]_vars

\* C36: addClient with an id that is registered already leaves no stale index
\* entry: afterwards a userId / sessionId index set contains the id only if
\* the handle now registered under the id has that userId / sessionId.
C36_ReplacedHandleLeavesIndexes ==
    [][(lastOp'.op = "addClient" /\ lastOp'.ok
          /\ lastOp'.arg.clientId \in DOMAIN clients)
         => LET id == lastOp'.arg.clientId
            IN /\ \A k \in DOMAIN userClientMap' :
                    id \in userClientMap'[k] => clients'[id].userId = k
               /\ \A k \in DOMAIN sessionClientMap' :
                    id \in sessionClientMap'[k] => clients'[id].sessionId = k]_vars

\* C37: no send of the service (sendEvent, its convenience forms, a heartbeat
\* tick) writes to the sink of a handle that had left the registry before the
\* send began: the targets and the handles written are handles registered
\* when the send starts, no other sink changes in that step, and the part of
\* the send that runs after other operations could interleave writes nothing.
C37_WritesOnlyToRegistered ==
    [][LET changed == {id \in DOMAIN clients \cap DOMAIN clients' :
                         clients'[id].sink # clients[id].sink}
       IN /\ lastOp'.op \in SendOps \cup {"sendStart", "heartbeat"}
               => /\ Range(lastOp'.targets) \subseteq DOMAIN clients
                  /\ Range(lastOp'.written) \subseteq DOMAIN clients
                  /\ DOMAIN clients' = DOMAIN clients
                  /\ changed \subseteq Range(lastOp'.written)
          /\ lastOp'.op = "sendFinish" => clients' = clients]_vars

\* a send began after the removal of a client that an earlier send, still
\* waiting to continue, had written to; the new send wrote to the others
C37_Witness ==
    /\ lastOp.op = "sendStart"
    /\ lastOp.written # << >>
    /\ Len(pending) = 2
    /\ \E id \in Range(pending[1].written) :
          /\ id \notin DOMAIN clients
          /\ id \notin Range(lastOp.targets)

\* the EventSources the hook created that are open: not closed by close() and
\* not given up by the browser
OpenSources(h) == {e \in DOMAIN h.sources : h.sources[e] # "closed"}

\* C38: one useSSE instance has at most one EventSource open (created and not
\* yet closed) at any time, whatever the sequence of connect() calls, error
\* events, reconnect timeouts firing and disconnect() calls.
C38_AtMostOneOpenSource == Cardinality(OpenSources(hook)) <= 1

\* C39: after disconnect() is called or the component unmounts, no
\* EventSource the hook created remains open, and no reconnect timeout set
\* before the disconnect opens a new connection later.
C39_DisconnectEndsEverything ==
    [][/\ lastOp'.op \in {"disconnect", "unmount"} => OpenSources(hook') = {}
       /\ lastOp'.op = "reconnectTimeout"
            => \A t \in DOMAIN hook.timeouts :
                  (hook.timeouts[t].survived /\ hook.timeouts[t].armed
                      /\ ~hook'.timeouts[t].armed)
                    => hook'.sources = hook.sources]_vars

====
